---- MODULE Spec2Model ----
(***************************************************************************)
(* Model of main.py: the fetch -> combine -> render -> publish pipeline of  *)
(* the academic-references job (OpenAlex and DOAJ clients, title            *)
(* deduplication, Markdown rendering, Redmine wiki PUT).                    *)
(*                                                                         *)
(* JSON values and Python values are tagged records: field k is the kind   *)
(* ("absent" = the key is missing, "null" = JSON null / None, "str",       *)
(* "list", "obj").  A Python exception inside an expression is the value   *)
(* Raise(name).  Strings that the code transforms (titles, which are       *)
(* lower-cased) are sequences of characters; other strings are atoms.      *)
(*                                                                         *)
(* Record fields the code fills by a plain top-level item.get(key, dflt)   *)
(* and never inspects again (year, abstract) are left out of the records.  *)
(* The OpenAlex items modelled carry no cited_count, doi or                *)
(* landing_page_url, so their records have citations 0 and url "#".  The   *)
(* timestamp of the document header is not modelled.                       *)
(***************************************************************************)
EXTENDS Integers, Sequences, FiniteSets, TLC

\* ------------------------------------------------------------------ bounds
\* Most items in the "results" array of one source response.
MaxItems == 2
\* Most entries in one item's author list (one more than the code displays).
MaxAuthors == 5
\* Largest limit passed when a source client is called on its own.
MaxLimit == 2
\* Longest record sequence handed to the renderer when it is called on its own.
MaxRender == 2

\* ------------------------------------------------------- program constants
\* [:4] in both clients' author comprehension.
MaxListed == 4
\* len(paper.get("authors", [])) > 4 in the renderer.
EtAlThreshold == 4
\* main: combinar_resultados(QUERY, limit_openalex=3, limit_doaj=3).
LimitOpenalexMain == 3
LimitDoajMain == 3

\* ------------------------------------------------------------- JSON values
Absent == [k |-> "absent"]
Null == [k |-> "null"]
Str(s) == [k |-> "str", v |-> s]
List(s) == [k |-> "list", v |-> s]
Raise(e) == [k |-> "raise", exc |-> e]

Min(a, b) == IF a <= b THEN a ELSE b

\* dict.get(key, default): the default only when the key is missing.
Get(v, default) == IF v.k = "absent" THEN default ELSE v

\* seq[:n]
Take(s, n) == SubSeq(s, 1, Min(n, Len(s)))

\* --------------------------------------------------------------- str.lower
LowerChar(c) ==
    CASE c = "D" -> "d"
      [] c = "O" -> "o"
      [] c = "S" -> "s"
      [] OTHER -> c

\* str.lower() of a title; None has no lower(): AttributeError.
Lower(t) ==
    IF t.k = "str" THEN Str([i \in DOMAIN t.v |-> LowerChar(t.v[i])])
    ELSE Raise("AttributeError")

\* "Digital...", "digital..." (the same title in another case), "Open Data...".
T1 == <<"D", "t">>
T2 == <<"d", "t">>
T3 == <<"O", "d">>
Titles == {T1, T2, T3}
\* The default title "Sin título".
SinTitulo == <<"S", "t">>

\* ------------------------------------------------ OpenAlex response items
AuthorName(i) == "a" \o ToString(i)
Authorship(a) == [k |-> "obj", author |-> a]
Author(n) == [k |-> "obj", display_name |-> n]
\* n well-formed authorships, named a1..an.
GoodAuth(n) == List([i \in 1..n |-> Authorship(Author(Str(AuthorName(i))))])
\* n authorships, the one at position p being e.
AuthWith(n, p, e) ==
    List([i \in 1..n |-> IF i = p THEN e ELSE Authorship(Author(Str(AuthorName(i))))])

Location(s) == [k |-> "obj", source |-> s]
Source(n) == [k |-> "obj", display_name |-> n]
NominalLoc == Location(Source(Str("J")))

OAItem(t, a, p) == [k |-> "obj", title |-> t, authorships |-> a, primary_location |-> p]

OpenalexItems ==
    { OAItem(Str(T1), GoodAuth(1), NominalLoc),
      OAItem(Str(T2), GoodAuth(MaxListed), Location(Absent)),
      OAItem(Str(T3), Absent, Absent),
      OAItem(Absent, GoodAuth(0), Location(Source(Absent))),
      OAItem(Null, GoodAuth(1), NominalLoc),
      OAItem(Str(T3), AuthWith(1, 1, Authorship(Author(Null))), NominalLoc),
      OAItem(Str(T3), AuthWith(1, 1, Authorship(Absent)), NominalLoc),
      OAItem(Str(T3), AuthWith(1, 1, Authorship(Author(Absent))), NominalLoc),
      OAItem(Str(T3), GoodAuth(MaxAuthors), NominalLoc) }

\* --------------------------------------------------- DOAJ response items
DoajAuthor(n) == [k |-> "obj", name |-> n]
DoajAuthors(n) == List([i \in 1..n |-> DoajAuthor(Str(AuthorName(i)))])
Journal(t) == [k |-> "obj", title |-> t]
Bibjson(t, a, j) == [k |-> "obj", title |-> t, author |-> a, journal |-> j]
Link(ty, u) == [k |-> "obj", type |-> ty, url |-> u]
FulltextLinks == List(<<Link(Str("pdf"), Str("u0")), Link(Str("fulltext"), Str("u1"))>>)
DoajItem(b, l) == [k |-> "obj", bibjson |-> b, links |-> l]

DoajItems ==
    { DoajItem(Bibjson(Str(T2), DoajAuthors(1), Journal(Str("R"))), FulltextLinks),
      DoajItem(Bibjson(Str(T3), Absent, Absent), Absent),
      DoajItem(Absent, List(<<>>)),
      DoajItem(Bibjson(Str(T1), List(<<DoajAuthor(Absent)>>), Journal(Absent)),
               List(<<Link(Absent, Str("u0"))>>)),
      DoajItem(Bibjson(Null, DoajAuthors(1), Journal(Str("R"))), FulltextLinks),
      DoajItem(Bibjson(Str(T3), List(<<DoajAuthor(Null)>>), Journal(Str("R"))), FulltextLinks),
      DoajItem(Null, FulltextLinks),
      DoajItem(Bibjson(Str(T3), DoajAuthors(MaxAuthors), Journal(Str("R"))), FulltextLinks) }

\* ------------------------------------------------------- HTTP responses
SeqsUpTo(S, n) == UNION { [1..m -> S] : m \in 0..n }

\* What requests.get can produce: a transport exception, a non-200 status, a
\* 200 whose body is not JSON, a 200 whose JSON has no "results", or a 200
\* with a "results" array.
Transport == [k |-> "exc"]
Http(status, body) == [k |-> "http", status |-> status, body |-> body]
NotJson == [k |-> "notjson"]
Body(results) == [k |-> "obj", results |-> results]
SourceFailures == {Transport, Http(404, NotJson), Http(500, NotJson), Http(200, NotJson)}

OpenalexResponses ==
    SourceFailures \cup {Http(200, Body(Absent))}
    \cup {Http(200, Body(List(s))) : s \in SeqsUpTo(OpenalexItems, MaxItems)}
DoajResponses ==
    SourceFailures \cup {Http(200, Body(Absent))}
    \cup {Http(200, Body(List(s))) : s \in SeqsUpTo(DoajItems, MaxItems)}

\* What requests.put can produce.
PutResponses == {Transport, Http(200, NotJson), Http(201, NotJson),
                 Http(404, NotJson), Http(500, NotJson)}

\* ------------------------------------------------------ buscar_openalex
\* First exception of a sequence of evaluated values, or List of the values.
FirstRaise(vals) ==
    IF \E i \in DOMAIN vals : vals[i].k = "raise"
    THEN vals[CHOOSE i \in DOMAIN vals :
                /\ vals[i].k = "raise"
                /\ \A j \in 1..(i - 1) : vals[j].k # "raise"]
    ELSE List(vals)

\* author["author"]["display_name"]: subscripting, so a missing key is a
\* KeyError and None is not subscriptable.
OpenalexAuthorName(e) ==
    CASE e.author.k = "absent" -> Raise("KeyError")
      [] e.author.k = "null" -> Raise("TypeError")
      [] e.author.display_name.k = "absent" -> Raise("KeyError")
      [] OTHER -> e.author.display_name

\* [author["author"]["display_name"] for author in item.get("authorships", [])[:4]]
OpenalexAuthors(item) ==
    LET a == Get(item.authorships, List(<<>>))
    IN  IF a.k # "list" THEN Raise("TypeError")
        ELSE LET sl == Take(a.v, MaxListed)
             IN  FirstRaise([i \in DOMAIN sl |-> OpenalexAuthorName(sl[i])])

\* item.get("primary_location", {}).get("source", {}).get("display_name", "Sin revista")
OpenalexJournal(item) ==
    LET pl == Get(item.primary_location, Location(Absent))
    IN  IF pl.k = "null" THEN Raise("AttributeError")
        ELSE LET src == Get(pl.source, Source(Absent))
             IN  IF src.k = "null" THEN Raise("AttributeError")
                 ELSE Get(src.display_name, Str("Sin revista"))

Paper(t, a, j, c, u) ==
    [k |-> "rec", title |-> t, authors |-> a, journal |-> j, citations |-> c, url |-> u]

\* The dict literal appended for one item; its values are evaluated in order.
OpenalexRecord(item) ==
    LET au == OpenalexAuthors(item)
        j == OpenalexJournal(item)
    IN  CASE au.k = "raise" -> au
          [] j.k = "raise" -> j
          [] OTHER -> Paper(Get(item.title, Str(SinTitulo)), au, j, Str("0"), Str("#"))

\* for item in data.get("results", []): results.append({...})
\* There is no [:limit] here: per_page is only a request parameter.
OpenalexResults(body, limit) ==
    IF body.k = "notjson" THEN Raise("JSONDecodeError")
    ELSE LET res == Get(body.results, List(<<>>))
         IN  FirstRaise([i \in DOMAIN res.v |-> OpenalexRecord(res.v[i])])

Return(v, out) == [k |-> "return", v |-> v, out |-> out]

\* Variant: the handler lets the exception go on.
ExceptReraise(r, out) == r

\* except Exception as e: print(...); return []
Except(r, out) == IF r.k = "raise" THEN Return(<<>>, out) ELSE r

\* The body of the try block.
OpenalexTry(resp, limit) ==
    CASE resp.k = "exc" -> Raise("ConnectionError")
      [] resp.status # 200 -> Return(<<>>, <<"buscando_openalex", "error_status_openalex">>)
      [] OTHER ->
           LET r == OpenalexResults(resp.body, limit)
           IN  IF r.k = "raise" THEN r
               ELSE Return(r.v, <<"buscando_openalex", "ok_openalex">>)

buscar_openalex(resp, limit) ==
    Except(OpenalexTry(resp, limit), <<"buscando_openalex", "error_conexion_openalex">>)

\* ---------------------------------------------------------- buscar_doaj
\* next((l for l in item.get("links", []) if l.get("type") == "fulltext"), {})
DoajLink(item) ==
    LET ls == Get(item.links, List(<<>>)).v
        hits == {i \in DOMAIN ls : ls[i].type.k = "str" /\ ls[i].type.v = "fulltext"}
    IN  IF hits = {} THEN Link(Absent, Absent)
        ELSE ls[CHOOSE i \in hits : \A j \in hits : i <= j]

\* [author.get("name", "Anónimo") for author in bibjson.get("author", [])[:4]]
DoajAuthorsOf(bibjson) ==
    LET a == Get(bibjson.author, List(<<>>))
    IN  IF a.k # "list" THEN Raise("TypeError")
        ELSE LET sl == Take(a.v, MaxListed)
             IN  List([i \in DOMAIN sl |-> Get(sl[i].name, Str("Anonimo"))])

\* bibjson.get("journal", {}).get("title", "Revista desconocida")
DoajJournal(bibjson) ==
    LET j == Get(bibjson.journal, Journal(Absent))
    IN  IF j.k = "null" THEN Raise("AttributeError")
        ELSE Get(j.title, Str("Revista desconocida"))

DoajRecord(item) ==
    LET bibjson == Get(item.bibjson, Bibjson(Absent, Absent, Absent))
    IN  IF bibjson.k = "null" THEN Raise("AttributeError")
        ELSE LET au == DoajAuthorsOf(bibjson)
                 j == DoajJournal(bibjson)
             IN  CASE au.k = "raise" -> au
                   [] j.k = "raise" -> j
                   [] OTHER -> Paper(Get(bibjson.title, Str(SinTitulo)), au, j,
                                     Str("N/A"), Get(DoajLink(item).url, Str("#")))

\* for item in data.get("results", [])[:limit]: results.append({...})
DoajResults(body, limit) ==
    IF body.k = "notjson" THEN Raise("JSONDecodeError")
    ELSE LET res == Take(Get(body.results, List(<<>>)).v, limit)
         IN  FirstRaise([i \in DOMAIN res |-> DoajRecord(res[i])])

DoajTry(resp, limit) ==
    CASE resp.k = "exc" -> Raise("ConnectionError")
      [] resp.status # 200 -> Return(<<>>, <<"buscando_doaj", "error_status_doaj">>)
      [] OTHER ->
           LET r == DoajResults(resp.body, limit)
           IN  IF r.k = "raise" THEN r
               ELSE Return(r.v, <<"buscando_doaj", "ok_doaj">>)

buscar_doaj(resp, limit) ==
    Except(DoajTry(resp, limit), <<"buscando_doaj", "error_conexion_doaj">>)

\* Variant: assignment in place of +=.
ExtendOverwrite(papers, more) == more

\* -------------------------------------------------- combinar_resultados
\* papers += buscar_...(query, limit)
Extend(papers, more) == papers \o more

\* Variant: the title is remembered as it is written.
TitleKeyExact(title) == IF title.k = "str" THEN title ELSE Raise("AttributeError")

\* The key under which a title is remembered in `seen`.
TitleKey(title) == Lower(title)

\* for paper in papers: title = paper["title"].lower(); if title not in seen: ...
\* i is the position of the loop; the result is List(unique_papers) or the
\* exception that lower() raises on a title that is None.
RECURSIVE DedupLoop(_, _, _, _)
DedupLoop(papers, i, seen, unique) ==
    IF i > Len(papers) THEN List(unique)
    ELSE LET title == TitleKey(papers[i].title)
         IN  CASE title.k = "raise" -> title
               [] title \notin seen ->
                    DedupLoop(papers, i + 1, seen \cup {title}, Append(unique, papers[i]))
               [] OTHER -> DedupLoop(papers, i + 1, seen, unique)

Dedup(papers) == DedupLoop(papers, 1, {}, <<>>)

\* ------------------------------------------- formatear_papers_markdown
\* How an f-string shows a value: None is the text "None".
NoneText == <<"N", "o", "n", "e">>
Format(v) == IF v.k = "null" THEN Str(NoneText) ELSE v
FormatAtom(v) == IF v.k = "null" THEN Str("None") ELSE v

\* ", ".join(names): the pieces of the joined string, in order.
RECURSIVE JoinPieces(_)
JoinPieces(names) ==
    IF names = <<>> THEN <<>>
    ELSE IF Len(names) = 1 THEN <<names[1].v>>
    ELSE <<names[1].v, ", ">> \o JoinPieces(Tail(names))

\* str.join accepts only a list of str.
Join(names) ==
    IF names.k # "list" THEN Raise("TypeError")
    ELSE IF \E i \in DOMAIN names.v : names.v[i].k # "str" THEN Raise("TypeError")
    ELSE List(JoinPieces(names.v))

\* authors = ", ".join(paper.get("authors", ["Anónimo"]))
\* if len(paper.get("authors", [])) > 4: authors += " et al."
AuthorLine(paper) ==
    LET joined == Join(Get(paper.authors, List(<<Str("Anonimo")>>)))
    IN  IF joined.k = "raise" THEN joined
        ELSE IF Len(Get(paper.authors, List(<<>>)).v) > EtAlThreshold
        THEN List(Append(joined.v, " et al."))
        ELSE joined

\* Variant: enumerate(papers), counting from 0.
SectionNumberFromZero(i) == i - 1

\* enumerate(papers, 1)
SectionNumber(i) == i

Header == [k |-> "header"]
Notice == [k |-> "notice"]
Section(i, paper, authors) ==
    [k |-> "section", num |-> SectionNumber(i), title |-> Format(Get(paper.title, Str(SinTitulo))),
     authors |-> authors, journal |-> FormatAtom(Get(paper.journal, Str("Sin revista"))),
     citations |-> Get(paper.citations, Str("N/A")), url |-> Get(paper.url, Str("#"))]

\* The blocks appended after the header: the notice for an empty list,
\* otherwise one section per record.
Blocks(papers) ==
    IF papers = <<>> THEN List(<<Notice>>)
    ELSE FirstRaise([i \in DOMAIN papers |->
                       LET a == AuthorLine(papers[i])
                       IN  IF a.k = "raise" THEN a ELSE Section(i, papers[i], a.v)])

\* The document as the sequence of its blocks, or the exception raised.
formatear_papers_markdown(papers) ==
    LET b == Blocks(papers)
    IN  IF b.k = "raise" THEN b ELSE List(<<Header>> \o b.v)

\* Variant: only 200 counts as success.
PutSucceededOnly200(status) == status = 200

\* ------------------------------------------------ actualizar_wiki_redmine
\* response.status_code in [200, 201]
PutSucceeded(status) == status \in {200, 201}

PutTry(resp) ==
    CASE resp.k = "exc" -> Raise("ConnectionError")
      [] PutSucceeded(resp.status) -> Return(TRUE, <<"exito_wiki">>)
      [] OTHER -> Return(FALSE, <<"error_status_wiki">>)

\* except Exception as e: print(...); return False
PutExcept(r) == IF r.k = "raise" THEN Return(FALSE, <<"error_conexion_wiki">>) ELSE r

actualizar_wiki_redmine(resp) == PutExcept(PutTry(resp))

\* ------------------------------------------- what is known of a request
\* A JSON value that differs from a complete one only by missing keys: it
\* holds no null.
OpenalexOnlyAbsent(item) ==
    /\ item.title.k # "null"
    /\ \/ item.authorships.k = "absent"
       \/ /\ item.authorships.k = "list"
          /\ \A i \in DOMAIN item.authorships.v :
                LET e == item.authorships.v[i]
                IN  \/ e.author.k = "absent"
                    \/ e.author.k = "obj" /\ e.author.display_name.k # "null"
    /\ \/ item.primary_location.k = "absent"
       \/ /\ item.primary_location.k = "obj"
          /\ \/ item.primary_location.source.k = "absent"
             \/ /\ item.primary_location.source.k = "obj"
                /\ item.primary_location.source.display_name.k # "null"

DoajOnlyAbsent(item) ==
    /\ item.links.k \in {"absent", "list"}
    /\ \/ item.bibjson.k = "absent"
       \/ /\ item.bibjson.k = "obj"
          /\ item.bibjson.title.k # "null"
          /\ \/ item.bibjson.author.k = "absent"
             \/ /\ item.bibjson.author.k = "list"
                /\ \A i \in DOMAIN item.bibjson.author.v :
                      item.bibjson.author.v[i].name.k # "null"
          /\ \/ item.bibjson.journal.k = "absent"
             \/ item.bibjson.journal.k = "obj" /\ item.bibjson.journal.title.k # "null"

\* The items of a response's "results" array (none when there is no array).
ItemsOf(resp) ==
    IF resp.k = "http" /\ resp.body.k = "obj" /\ resp.body.results.k = "list"
    THEN resp.body.results.v ELSE <<>>

\* The author names an item carries, all of them, as the source gives them.
OpenalexSourceNames(item) ==
    IF item.authorships.k # "list" THEN <<>>
    ELSE [i \in DOMAIN item.authorships.v |->
            LET e == item.authorships.v[i]
            IN  IF e.author.k = "obj" THEN e.author.display_name ELSE Absent]
DoajSourceNames(item) ==
    IF item.bibjson.k # "obj" THEN <<>>
    ELSE IF item.bibjson.author.k # "list" THEN <<>>
    ELSE [i \in DOMAIN item.bibjson.author.v |-> item.bibjson.author.v[i].name]

NoRequest ==
    [sent |-> FALSE, transport |-> FALSE, status |-> 0, json |-> FALSE, n |-> 0,
     onlyAbsent |-> FALSE]
RequestInfo(resp, onlyAbsent) ==
    [sent |-> TRUE,
     transport |-> resp.k = "exc",
     status |-> IF resp.k = "exc" THEN 0 ELSE resp.status,
     json |-> resp.k = "http" /\ resp.body.k = "obj",
     n |-> Len(ItemsOf(resp)),
     onlyAbsent |-> onlyAbsent]

\* ------------------------------------------------------------------ state
VARIABLES
    entry,       \* the function the run calls
    pc,          \* where the run is
    limit,       \* the limit argument of each source client
    oaReq,       \* what the OpenAlex endpoint answered (history)
    doajReq,     \* what the DOAJ endpoint answered (history)
    putReq,      \* what the wiki endpoint answered (history)
    oaOut,       \* return value of buscar_openalex
    doajOut,     \* return value of buscar_doaj
    papers,      \* combinar_resultados: papers
    srcNames,    \* per element of papers (or of the client's return value):
                 \* the source item's author names (history)
    resultados,  \* return value of combinar_resultados / argument of the renderer
    contenido,   \* return value of formatear_papers_markdown
    putRet,      \* return value of actualizar_wiki_redmine
    net,         \* HTTP requests issued, in order
    out,         \* lines printed, in order
    raised       \* the exception that left the called function, and where

vars == <<entry, pc, limit, oaReq, doajReq, putReq, oaOut, doajOut, papers, srcNames,
          resultados, contenido, putRet, net, out, raised>>

Entries == {"main", "buscar_openalex", "buscar_doaj", "formatear_papers_markdown"}

NotRaised == [exc |-> "none", at |-> "none"]
Unset == [k |-> "unset"]

\* Records handed to the renderer when it is called on its own.
RenderPapers ==
    { Paper(Str(T1), List(<<Str("a1")>>), Str("J"), Str("0"), Str("#")),
      Paper(Str(T3), List(<<Str("a1"), Str("a2")>>), Str("R"), Str("N/A"), Str("u1")),
      Paper(Str(T2), Absent, Str("J"), Str("0"), Str("#")),
      Paper(Null, List(<<>>), Null, Str("0"), Str("#")),
      Paper(Str(T1), List(<<Null>>), Str("J"), Str("0"), Str("#")) }
    \cup { Paper(Str(T2), List([i \in 1..MaxAuthors |-> Str(AuthorName(i))]), Str("J"),
                  Str("0"), Str("#")) }

Init ==
    /\ entry \in Entries
    /\ pc = "start"
    /\ limit = [openalex |-> 0, doaj |-> 0]
    /\ oaReq = NoRequest
    /\ doajReq = NoRequest
    /\ putReq = NoRequest
    /\ oaOut = Unset
    /\ doajOut = Unset
    /\ papers = <<>>
    /\ srcNames = <<>>
    /\ resultados = Unset
    /\ contenido = Unset
    /\ putRet = Unset
    /\ net = <<>>
    /\ out = <<>>
    /\ raised = NotRaised

\* The call of the entry function with its arguments.  main prints its banner
\* and enters combinar_resultados(QUERY, 3, 3), whose first statement is
\* papers = [].
Start ==
    /\ pc = "start"
    /\ \/ /\ entry = "main"
          /\ limit' = [openalex |-> LimitOpenalexMain, doaj |-> LimitDoajMain]
          /\ out' = <<"inicio">>
          /\ pc' = "openalex"
          /\ UNCHANGED resultados
       \/ /\ entry = "buscar_openalex"
          /\ \E l \in 1..MaxLimit : limit' = [openalex |-> l, doaj |-> 0]
          /\ pc' = "openalex"
          /\ UNCHANGED <<out, resultados>>
       \/ /\ entry = "buscar_doaj"
          /\ \E l \in 1..MaxLimit : limit' = [openalex |-> 0, doaj |-> l]
          /\ pc' = "doaj"
          /\ UNCHANGED <<out, resultados>>
       \/ /\ entry = "formatear_papers_markdown"
          /\ \E ps \in SeqsUpTo(RenderPapers, MaxRender) : resultados' = List(ps)
          /\ pc' = "render"
          /\ UNCHANGED <<out, limit>>
    /\ UNCHANGED <<entry, oaReq, doajReq, putReq, oaOut, doajOut, papers, srcNames,
                   contenido, putRet, net, raised>>

\* buscar_openalex(query, limit): one GET and the conversion of its answer;
\* in combinar_resultados the return value is added to papers.
BuscarOpenalex ==
    /\ pc = "openalex"
    /\ \E resp \in OpenalexResponses :
          LET r == buscar_openalex(resp, limit.openalex)
              items == ItemsOf(resp)
          IN  /\ net' = Append(net, "GET openalex")
              /\ oaReq' = RequestInfo(resp, \A i \in DOMAIN items : OpenalexOnlyAbsent(items[i]))
              /\ IF r.k = "raise"
                 THEN /\ raised' = [exc |-> r.exc, at |-> "buscar_openalex"]
                      /\ pc' = "crashed"
                      /\ UNCHANGED <<oaOut, papers, srcNames, out>>
                 ELSE /\ oaOut' = List(r.v)
                      /\ out' = out \o r.out
                      /\ papers' = IF entry = "main" THEN Extend(papers, r.v) ELSE papers
                      /\ srcNames' = srcNames \o
                                       [i \in DOMAIN r.v |-> OpenalexSourceNames(items[i])]
                      /\ pc' = IF entry = "main" THEN "doaj" ELSE "done"
                      /\ UNCHANGED raised
    /\ UNCHANGED <<entry, limit, doajReq, putReq, doajOut, resultados, contenido, putRet>>

\* buscar_doaj(query, limit), likewise.
BuscarDoaj ==
    /\ pc = "doaj"
    /\ \E resp \in DoajResponses :
          LET r == buscar_doaj(resp, limit.doaj)
              items == ItemsOf(resp)
          IN  /\ net' = Append(net, "GET doaj")
              /\ doajReq' = RequestInfo(resp, \A i \in DOMAIN items : DoajOnlyAbsent(items[i]))
              /\ IF r.k = "raise"
                 THEN /\ raised' = [exc |-> r.exc, at |-> "buscar_doaj"]
                      /\ pc' = "crashed"
                      /\ UNCHANGED <<doajOut, papers, srcNames, out>>
                 ELSE /\ doajOut' = List(r.v)
                      /\ out' = out \o r.out
                      /\ papers' = IF entry = "main" THEN Extend(papers, r.v) ELSE papers
                      /\ srcNames' = srcNames \o
                                       [i \in DOMAIN r.v |-> DoajSourceNames(items[i])]
                      /\ pc' = IF entry = "main" THEN "dedup" ELSE "done"
                      /\ UNCHANGED raised
    /\ UNCHANGED <<entry, limit, oaReq, putReq, oaOut, resultados, contenido, putRet>>

\* The rest of combinar_resultados: the duplicate filter and the return.
Combinar ==
    /\ pc = "dedup"
    /\ LET r == Dedup(papers)
       IN  IF r.k = "raise"
           THEN /\ raised' = [exc |-> r.exc, at |-> "combinar_resultados"]
                /\ pc' = "crashed"
                /\ UNCHANGED resultados
           ELSE /\ resultados' = r
                /\ pc' = "check"
                /\ UNCHANGED raised
    /\ UNCHANGED <<entry, limit, oaReq, doajReq, putReq, oaOut, doajOut, papers, srcNames,
                   contenido, putRet, net, out>>

\* main: if not resultados: print(...); return
Comprobar ==
    /\ pc = "check"
    /\ IF resultados.v = <<>>
       THEN /\ out' = Append(out, "no_se_encontraron")
            /\ pc' = "done"
       ELSE /\ pc' = "render"
            /\ UNCHANGED out
    /\ UNCHANGED <<entry, limit, oaReq, doajReq, putReq, oaOut, doajOut, papers, srcNames,
                   resultados, contenido, putRet, net, raised>>

\* formatear_papers_markdown(resultados); main then prints "Enviando a Redmine".
Formatear ==
    /\ pc = "render"
    /\ LET r == formatear_papers_markdown(resultados.v)
       IN  IF r.k = "raise"
           THEN /\ raised' = [exc |-> r.exc, at |-> "formatear_papers_markdown"]
                /\ pc' = "crashed"
                /\ UNCHANGED <<contenido, out>>
           ELSE /\ contenido' = r
                /\ pc' = IF entry = "main" THEN "publish" ELSE "done"
                /\ out' = IF entry = "main" THEN Append(out, "enviando") ELSE out
                /\ UNCHANGED raised
    /\ UNCHANGED <<entry, limit, oaReq, doajReq, putReq, oaOut, doajOut, papers, srcNames,
                   resultados, putRet, net>>

\* actualizar_wiki_redmine(contenido): one PUT; main prints the outcome.
Publicar ==
    /\ pc = "publish"
    /\ \E resp \in PutResponses :
          LET r == actualizar_wiki_redmine(resp)
          IN  /\ net' = Append(net, "PUT wiki")
              /\ putReq' = RequestInfo(resp, FALSE)
              /\ IF r.k = "raise"
                 THEN /\ raised' = [exc |-> r.exc, at |-> "actualizar_wiki_redmine"]
                      /\ pc' = "crashed"
                      /\ UNCHANGED <<putRet, out>>
                 ELSE /\ putRet' = [k |-> "bool", v |-> r.v]
                      /\ out' = out \o r.out \o
                                  (IF r.v THEN <<"exito">> ELSE <<"fallo_redmine">>)
                      /\ pc' = "done"
                      /\ UNCHANGED raised
    /\ UNCHANGED <<entry, limit, oaReq, doajReq, oaOut, doajOut, papers, srcNames,
                   resultados, contenido>>

Next ==
    \/ Start
    \/ BuscarOpenalex
    \/ BuscarDoaj
    \/ Combinar
    \/ Comprobar
    \/ Formatear
    \/ Publicar

Spec == Init /\ [][Next]_vars

\* ================================================================ claims
Last(s) == s[Len(s)]
Range(s) == {s[i] : i \in DOMAIN s}

\* The source did not deliver a parsed 200 answer.
Failed(req) == req.sent /\ (req.transport \/ req.status # 200 \/ ~req.json)

\* The function returned the empty list.
ReturnedEmpty(ret) == ret.k = "list" /\ ret.v = <<>>

\* C1: whenever a source client (buscar_openalex, buscar_doaj) got a non-200
\* status, a transport exception or a body that is not JSON, it returned the
\* empty list and no exception left it.
C1_FailureGivesEmptyList ==
    /\ Failed(oaReq) => ReturnedEmpty(oaOut) /\ raised.at # "buscar_openalex"
    /\ Failed(doajReq) => ReturnedEmpty(doajOut) /\ raised.at # "buscar_doaj"

\* A run of main in which OpenAlex answered 404 and the DOAJ body was no JSON.
C1_Witness ==
    /\ entry = "main"
    /\ oaReq.sent /\ oaReq.status = 404 /\ ReturnedEmpty(oaOut)
    /\ doajReq.sent /\ doajReq.status = 200 /\ ~doajReq.json /\ ReturnedEmpty(doajOut)

\* C2: each source client returns at most `limit` records, also when the
\* "results" array of the 200 answer holds more than `limit` items.
C2_AtMostLimit ==
    /\ oaOut.k = "list" => Len(oaOut.v) <= limit.openalex
    /\ doajOut.k = "list" => Len(doajOut.v) <= limit.doaj

\* Two titles are equal ignoring letter case.
CasePairs == {<<"D", "d">>, <<"O", "o">>, <<"S", "s">>}
SameLetter(a, b) == a = b \/ <<a, b>> \in CasePairs \/ <<b, a>> \in CasePairs
SameTitle(t, u) ==
    /\ t.k = "str" /\ u.k = "str"
    /\ Len(t.v) = Len(u.v)
    /\ \A i \in DOMAIN t.v : SameLetter(t.v[i], u.v[i])

\* The positions of cat whose title does not occur, in any case, earlier in cat.
FirstPositions(cat) ==
    {i \in DOMAIN cat : \A j \in 1..(i - 1) : ~SameTitle(cat[j].title, cat[i].title)}
\* The k-th of a set of positions, in increasing order.
NthPosition(S, k) == CHOOSE i \in S : Cardinality({j \in S : j < i}) = k - 1
\* The subsequence of cat at its first positions.
FirstOccurrences(cat) ==
    [k \in 1..Cardinality(FirstPositions(cat)) |-> cat[NthPosition(FirstPositions(cat), k)]]

CombinarReturned == entry = "main" /\ pc \in {"check", "render", "publish", "done"}
\* A later step of main raised: combinar_resultados had returned before.
CombinarHadReturned ==
    \/ CombinarReturned
    \/ entry = "main" /\ pc = "crashed" /\ raised.at = "formatear_papers_markdown"

\* C3: what combinar_resultados returns is the subsequence of (OpenAlex records
\* followed by DOAJ records) at the first occurrence of each title, letter case
\* ignored: no two returned titles are equal ignoring case, every title of the
\* concatenation is in the result, the record kept is the earliest, and the
\* order is that of the concatenation.
C3_FirstOccurrencePerTitle ==
    CombinarHadReturned =>
        LET cat == oaOut.v \o doajOut.v
            res == resultados.v
        IN  /\ res = FirstOccurrences(cat)
            /\ \A a, b \in DOMAIN res : a # b => ~SameTitle(res[a].title, res[b].title)
            /\ \A i \in DOMAIN cat : \E a \in DOMAIN res : SameTitle(cat[i].title, res[a].title)

\* OpenAlex gave a title and DOAJ the same title in another case; one was kept.
C3_Witness ==
    /\ CombinarReturned
    /\ \E i \in DOMAIN oaOut.v : \E j \in DOMAIN doajOut.v :
          /\ oaOut.v[i].title # doajOut.v[j].title
          /\ SameTitle(oaOut.v[i].title, doajOut.v[j].title)
    /\ Len(resultados.v) < Len(oaOut.v) + Len(doajOut.v)
    /\ Len(resultados.v) >= 2

Count(s, x) == Cardinality({i \in DOMAIN s : s[i] = x})
MainEnded == entry = "main" /\ pc \in {"done", "crashed"}

\* C4: in every run of main, an empty aggregated list means no render, no PUT
\* and the failure message; a non-empty one means exactly one PUT, issued after
\* both source queries, and never a second one.
C4_PublishExactlyWhenNonEmpty ==
    entry = "main" =>
        /\ Count(net, "PUT wiki") <= 1
        /\ \A i \in DOMAIN net : net[i] = "PUT wiki" =>
              i = 3 /\ net[1] = "GET openalex" /\ net[2] = "GET doaj"
        /\ (MainEnded /\ resultados.k = "list" /\ resultados.v = <<>>) =>
              /\ contenido.k = "unset"
              /\ Count(net, "PUT wiki") = 0
              /\ Last(out) = "no_se_encontraron"
        /\ (MainEnded /\ resultados.k = "list" /\ resultados.v # <<>>) =>
              Count(net, "PUT wiki") = 1

\* C5: actualizar_wiki_redmine returns True exactly for status 200 or 201, and
\* False without raising for every other status and for a transport exception;
\* main then prints the failure line, not the success line, and ends normally.
C5_PutOutcome ==
    putReq.sent =>
        /\ raised = NotRaised
        /\ putRet.k = "bool"
        /\ putRet.v <=> (~putReq.transport /\ putReq.status \in {200, 201})
        /\ pc = "done"
        /\ ~putRet.v => Last(out) = "fallo_redmine" /\ "exito" \notin Range(out)
        /\ putRet.v => Last(out) = "exito" /\ "fallo_redmine" \notin Range(out)

\* The wiki answered 404: the call returned False and main printed the failure.
C5_Witness ==
    /\ putReq.sent /\ putReq.status = 404
    /\ putRet.k = "bool" /\ ~putRet.v
    /\ pc = "done" /\ Last(out) = "fallo_redmine"

\* C6: no exception leaves main, whatever the sources and the wiki answer.
C6_NoExceptionLeavesMain ==
    entry = "main" => pc # "crashed" /\ raised = NotRaised

\* C7: for a 200 answer whose items only lack keys (no null anywhere), every
\* item yields one record: OpenAlex returns as many records as there are
\* items, DOAJ as many as there are items within the limit.
C7_AbsentKeysTolerated ==
    /\ (oaReq.sent /\ ~Failed(oaReq) /\ oaReq.onlyAbsent) =>
          oaOut.k = "list" /\ Len(oaOut.v) = oaReq.n
    /\ (doajReq.sent /\ ~Failed(doajReq) /\ doajReq.onlyAbsent) =>
          doajOut.k = "list" /\ Len(doajOut.v) = Min(doajReq.n, limit.doaj)

\* C8: in combinar_resultados both sources are queried, OpenAlex first and
\* DOAJ second, whatever the other's outcome; when one failed, the result is
\* the deduplicated records of the other alone (and if the filter raised, it is
\* on a record of the other source).
C8_SourceFailuresIsolated ==
    entry = "main" =>
        /\ pc = "doaj" => net = <<"GET openalex">> /\ ENABLED BuscarDoaj
        /\ pc \notin {"start", "openalex", "doaj"} =>
              Len(net) >= 2 /\ net[1] = "GET openalex" /\ net[2] = "GET doaj"
        /\ (CombinarHadReturned /\ Failed(oaReq)) =>
              resultados.v = FirstOccurrences(doajOut.v)
        /\ (CombinarHadReturned /\ Failed(doajReq)) =>
              resultados.v = FirstOccurrences(oaOut.v)
        /\ (pc = "crashed" /\ raised.at = "combinar_resultados" /\ Failed(oaReq)) =>
              \E i \in DOMAIN doajOut.v : doajOut.v[i].title.k = "null"
        /\ (pc = "crashed" /\ raised.at = "combinar_resultados" /\ Failed(doajReq)) =>
              \E i \in DOMAIN oaOut.v : oaOut.v[i].title.k = "null"

\* OpenAlex failed and DOAJ delivered two records that were both kept.
C8_Witness ==
    /\ CombinarReturned
    /\ Failed(oaReq)
    /\ ~Failed(doajReq) /\ Len(doajOut.v) = 2
    /\ resultados.v = doajOut.v

\* The sections of a rendered document.
Sections(doc) == SelectSeq(doc, LAMBDA b : b.k = "section")
EndsWithEtAl(line) == line # <<>> /\ Last(line) = " et al."
\* The names of an author line: its pieces without separators and suffix.
NamesShown(line) == SelectSeq(line, LAMBDA x : x \notin {", ", " et al."})

\* C9: for every item that went through a source client and the renderer, the
\* author line ends with " et al." exactly when the item's source author list
\* had more than 4 entries, and the names shown are the first 4 of that list.
C9_EtAlWhenMoreThanFour ==
    (entry = "main" /\ contenido.k = "list") =>
        LET secs == Sections(contenido.v)
            first == FirstPositions(papers)
        IN  \A k \in DOMAIN secs :
              LET names == srcNames[NthPosition(first, k)]
                  shown == NamesShown(secs[k].authors)
              IN  /\ EndsWithEtAl(secs[k].authors) <=> Len(names) > 4
                  /\ Len(shown) = Min(Len(names), 4)
                  /\ \A j \in DOMAIN shown : names[j].k = "str" => shown[j] = names[j].v

BlockKinds(doc) == [i \in DOMAIN doc |-> doc[i].k]

\* C10: formatear_papers_markdown, given n records, returns a document with
\* exactly n subsections numbered 1..n in input order (subsection k showing
\* record k), and with the "no results" notice exactly when n = 0; it returns
\* for every sequence of records whose author lists hold only strings.
C10_SectionsNumbered ==
    /\ contenido.k = "list" =>
          LET n == Len(resultados.v)
              doc == contenido.v
              secs == Sections(doc)
          IN  /\ doc[1] = Header
              /\ Len(secs) = n
              /\ \A k \in 1..n :
                    /\ secs[k].num = k
                    /\ doc[k + 1] = secs[k]
                    /\ secs[k].title = Format(Get(resultados.v[k].title, Str(SinTitulo)))
              /\ (Notice \in Range(doc)) <=> n = 0
              /\ n = 0 => doc = <<Header, Notice>>
              /\ Len(doc) = IF n = 0 THEN 2 ELSE n + 1
    /\ (pc = "crashed" /\ raised.at = "formatear_papers_markdown") =>
          \E k \in DOMAIN resultados.v :
             LET a == Get(resultados.v[k].authors, List(<<>>))
             IN  a.k # "list" \/ \E j \in DOMAIN a.v : a.v[j].k # "str"
    /\ (pc \in {"publish", "done"} /\ entry \in {"main", "formatear_papers_markdown"}
          /\ resultados.k = "list" /\ (entry = "main" => resultados.v # <<>>)) =>
          contenido.k = "list"

\* The run of the specification's scenario: OpenAlex gave the same title
\* twice in two cases, DOAJ a third title; the document has two subsections.
C10_Witness ==
    /\ entry = "main"
    /\ contenido.k = "list"
    /\ Len(oaOut.v) = 2 /\ oaOut.v[1].title = Str(T1) /\ oaOut.v[2].title = Str(T2)
    /\ Len(doajOut.v) = 1 /\ doajOut.v[1].title = Str(T3)
    /\ BlockKinds(contenido.v) = <<"header", "section", "section">>
    /\ contenido.v[2].title = Str(T1) /\ contenido.v[3].title = Str(T3)
====
